---- MODULE Spec2Model ----
(***************************************************************************)
(* RoadNetworkBuilder (gridtracer/data/imports/osm/road_network_builder.py) *)
(*                                                                         *)
(* The edge pipeline: tag resolution, mask filter, cost derivation, flag   *)
(* packing, row formatting and the chunking of rows into INSERT blocks.    *)
(*                                                                         *)
(* Text is a sequence of tokens.  The delimiters the code looks at (",",   *)
(* "'", " ") are always tokens of their own; any other token is a run of   *)
(* ordinary characters.  Floats are exact fractions [n, d] or NaN.         *)
(***************************************************************************)
EXTENDS Integers, Sequences, FiniteSets, TLC

VARIABLES config, edges_gdf, pc, i, processed_edges_list,
          insert_value_tuples, full_sql_content, exc

vars == <<config, edges_gdf, pc, i, processed_edges_list,
          insert_value_tuples, full_sql_content, exc>>

(***************************************************************************)
(* Bounds of the model.                                                    *)
(***************************************************************************)
MaxEdges == 3
MaxRows == 2500

(***************************************************************************)
(* Python values.                                                          *)
(***************************************************************************)
None == [t |-> "none"]
NaN == [t |-> "nan"]
Absent == [t |-> "absent"]
VStr(s) == [t |-> "str", s |-> s]
VInt(n) == [t |-> "int", n |-> n]
VBool(b) == [t |-> "bool", b |-> b]
VList(xs) == [t |-> "list", xs |-> xs]
VDict(d) == [t |-> "dict", d |-> d]

\* row.get(key, default) / dict.get(key, default)
PyGet(row, key, default) ==
    IF key \in DOMAIN row /\ row[key] # Absent THEN row[key] ELSE default

\* A float as an exact fraction, or NaN.
Num(n, d) == [nan |-> FALSE, n |-> n, d |-> d]
FloatNaN == [nan |-> TRUE, n |-> 0, d |-> 1]

\* a / b for a a float (or an int given as Num(a, 1)) and b a positive int
FloatDivInt(a, b) == IF a.nan THEN FloatNaN ELSE Num(a.n, a.d * b)

\* a * b for a a float and b an int
FloatMulInt(a, b) == IF a.nan THEN FloatNaN ELSE Num(a.n * b, a.d)

\* the float is exactly the whole number v
IsWhole(a, v) == ~a.nan /\ a.n % a.d = 0 /\ a.n \div a.d = v

\* the same float value (what an assignment x = y gives), NaN included
SameFloat(a, b) == IF a.nan \/ b.nan THEN a.nan /\ b.nan ELSE a.n * b.d = b.n * a.d

(***************************************************************************)
(* Text.                                                                   *)
(***************************************************************************)
\* str.lower(), token by token
LowerTok(tok) ==
    CASE tok = "Yes" -> "yes"
      [] tok = "YES" -> "yes"
      [] tok = "True" -> "true"
      [] tok = "TRUE" -> "true"
      [] tok = "False" -> "false"
      [] tok = "None" -> "none"
      [] tok = "No" -> "no"
      [] OTHER -> tok

Lower(s) == [k \in 1..Len(s) |-> LowerTok(s[k])]

\* str(x)
PyStr(x) ==
    CASE x.t = "str" -> x.s
      [] x.t = "int" -> IF x.n = 1 THEN <<"1">>
                        ELSE IF x.n = -1 THEN <<"-1">> ELSE <<"0">>
      [] x.t = "bool" -> IF x.b THEN <<"True">> ELSE <<"False">>
      [] x.t = "nan" -> <<"nan">>
      [] x.t = "none" -> <<"None">>
      [] OTHER -> <<"?">>

RECURSIVE LStrip(_)
LStrip(s) == IF s # <<>> /\ Head(s) = " " THEN LStrip(Tail(s)) ELSE s

RECURSIVE RStrip(_)
RStrip(s) ==
    IF s # <<>> /\ s[Len(s)] = " " THEN RStrip(SubSeq(s, 1, Len(s) - 1)) ELSE s

\* str.strip()
Strip(s) == RStrip(LStrip(s))

\* a variant that leaves single quotes as they are
EscapeQuotes_none(s) == s

\* str.replace("'", "''")
RECURSIVE EscapeQuotes(_)
EscapeQuotes(s) ==
    IF s = <<>> THEN <<>>
    ELSE IF Head(s) = "'" THEN <<"'", "'">> \o EscapeQuotes(Tail(s))
    ELSE <<Head(s)>> \o EscapeQuotes(Tail(s))

\* f"'{escaped}'"
Quote(s) == <<"'">> \o s \o <<"'">>

\* str.split(','): the list of pieces between the commas
RECURSIVE SplitComma(_, _)
SplitComma(s, cur) ==
    IF s = <<>> THEN <<cur>>
    ELSE IF Head(s) = "," THEN <<cur>> \o SplitComma(Tail(s), <<>>)
    ELSE SplitComma(Tail(s), Append(cur, Head(s)))

Range(f) == {f[k] : k \in DOMAIN f}

\* bool(x)
Truthy(x) ==
    CASE x.t = "none" -> FALSE
      [] x.t = "absent" -> FALSE
      [] x.t = "str" -> x.s # <<>>
      [] x.t = "int" -> x.n # 0
      [] x.t = "bool" -> x.b
      [] x.t = "list" -> x.xs # <<>>
      [] x.t = "geom" -> x.kind # "empty"
      [] OTHER -> TRUE

\* "x[0] if x else dflt" for a list x, x itself otherwise
FirstOr(x, dflt) ==
    IF x.t = "list" THEN (IF x.xs # <<>> THEN x.xs[1] ELSE dflt) ELSE x

(***************************************************************************)
(* Configuration: the rule table, the allow-mask, the flag vocabulary.     *)
(***************************************************************************)
car == <<"car">>
bike == <<"bike">>
foot == <<"foot">>
boat == <<"boat">>

Flags(names) == VList([k \in 1..Len(names) |-> VStr(names[k])])

\* The rule table of a configuration file.  The motorway rule is the
\* built-in default; "proposed" resolves to class 0, "path" to speed 0,
\* "ferry" carries a flag outside the default vocabulary, "track" has no
\* flags key, and "service" has a null speed.
way_tag_config ==
    (<<"motorway">> :> [clazz |-> VInt(11), maxspeed |-> VInt(120),
                        flags |-> Flags(<<car>>)])
    @@ (<<"residential">> :> [clazz |-> VInt(32), maxspeed |-> VInt(40),
                              flags |-> Flags(<<car, bike, foot>>)])
    @@ (<<"path">> :> [clazz |-> VInt(72), maxspeed |-> VInt(0),
                       flags |-> Flags(<<bike, foot>>)])
    @@ (<<"ferry">> :> [clazz |-> VInt(2), maxspeed |-> VInt(10),
                        flags |-> Flags(<<boat, car>>)])
    @@ (<<"proposed">> :> [clazz |-> Absent, maxspeed |-> VInt(50),
                           flags |-> Flags(<<car>>)])
    @@ (<<"track">> :> [clazz |-> VInt(71), maxspeed |-> Absent,
                        flags |-> Absent])
    @@ (<<"service">> :> [clazz |-> VInt(51), maxspeed |-> None,
                          flags |-> Flags(<<car>>)])

\* final_mask settings: none, the empty string, and mask expressions
FinalMasks ==
    { None, VStr(<<>>), VStr(<<"bike">>), VStr(<<"car", ",", "foot">>),
      VStr(<<"car", ",", " ", "bike">>), VStr(<<"boat">>) }

\* flag_list settings: the default, a reordered one without "bike", one
\* that repeats a name, and the empty one
FlagLists ==
    { <<car, bike, foot>>, <<foot, car>>, <<car, bike, car>>, <<>> }

default_config ==
    [tags |-> way_tag_config, final_mask |-> None,
     flag_list |-> <<car, bike, foot>>]

Configs ==
    { [default_config EXCEPT !.final_mask = m] : m \in FinalMasks }
    \cup { [default_config EXCEPT !.flag_list = fl] : fl \in FlagLists }

(***************************************************************************)
(* _flags_to_int                                                           *)
(***************************************************************************)
RECURSIVE BitOr(_, _)
BitOr(a, b) ==
    IF a = 0 THEN b
    ELSE IF b = 0 THEN a
    ELSE (IF a % 2 = 1 \/ b % 2 = 1 THEN 1 ELSE 0) + 2 * BitOr(a \div 2, b \div 2)

\* 1 << k
Shl(k) == 2 ^ k

\* {flag: 1 << i for i, flag in enumerate(flag_list)}: a later entry of the
\* same name overwrites an earlier one
RECURSIVE FlagBitmaskFrom(_, _, _)
FlagBitmaskFrom(flag_list, k, d) ==
    IF k > Len(flag_list) THEN d
    ELSE FlagBitmaskFrom(flag_list, k + 1,
            [f \in DOMAIN d \cup {flag_list[k]} |->
                IF f = flag_list[k] THEN Shl(k - 1) ELSE d[f]])

flag_bitmask(flag_list) == FlagBitmaskFrom(flag_list, 1, << >>)

\* a variant that assigns ("mask = ...") where the loop ORs ("mask |= ...")
RECURSIVE OrFlags_assign(_, _, _)
OrFlags_assign(order, bitmask, mask) ==
    IF order = <<>> THEN mask
    ELSE OrFlags_assign(Tail(order), bitmask,
            IF Head(order) \in DOMAIN bitmask THEN bitmask[Head(order)] ELSE 0)

\* the loop "for flag in flags_set: mask |= flag_bitmask.get(flag, 0)", the
\* set iterated in the order `order`
RECURSIVE OrFlags(_, _, _)
OrFlags(order, bitmask, mask) ==
    IF order = <<>> THEN mask
    ELSE OrFlags(Tail(order), bitmask,
            BitOr(mask, IF Head(order) \in DOMAIN bitmask
                        THEN bitmask[Head(order)] ELSE 0))

_flags_to_int(cfg, order) == OrFlags(order, flag_bitmask(cfg.flag_list), 0)

\* the orders in which a set may be iterated
RECURSIVE Orders(_)
Orders(S) ==
    IF S = {} THEN { <<>> }
    ELSE UNION { { <<x>> \o o : o \in Orders(S \ {x}) } : x \in S }

(***************************************************************************)
(* _resolve_way_tags                                                       *)
(***************************************************************************)
\* a variant in which a highway value without a rule falls back to the
\* motorway rule
_resolve_way_tags_fallback(cfg, tags_dict) ==
    LET highway_type == PyGet(tags_dict, "highway", None)
        key == IF Truthy(highway_type) /\ highway_type.t = "str"
                  /\ highway_type.s \in DOMAIN cfg.tags
               THEN highway_type.s ELSE <<"motorway">>
        rule == cfg.tags[key]
        fl == PyGet(rule, "flags", VList(<<>>))
    IN  [clazz |-> PyGet(rule, "clazz", VInt(0)),
         maxspeed |-> PyGet(rule, "maxspeed", VInt(0)),
         flags |-> {fl.xs[k].s : k \in 1..Len(fl.xs)}]

_resolve_way_tags(cfg, tags_dict) ==
    LET highway_type == PyGet(tags_dict, "highway", None)
    IN  IF Truthy(highway_type) /\ highway_type.t = "str"
           /\ highway_type.s \in DOMAIN cfg.tags
        THEN LET rule == cfg.tags[highway_type.s]
                 fl == PyGet(rule, "flags", VList(<<>>))
             IN  [clazz |-> PyGet(rule, "clazz", VInt(0)),
                  maxspeed |-> PyGet(rule, "maxspeed", VInt(0)),
                  flags |-> {fl.xs[k].s : k \in 1..Len(fl.xs)}]
        ELSE [clazz |-> VInt(0), maxspeed |-> VInt(0), flags |-> {}]

(***************************************************************************)
(* _is_way_allowed_by_final_mask                                           *)
(***************************************************************************)
\* a variant that asks for every flag of the way to be in the mask
_is_way_allowed_subset(cfg, flags_set) ==
    LET final_mask_str == cfg.final_mask
        has_mask == Truthy(final_mask_str)
        final_mask_flags ==
            IF has_mask THEN Range(SplitComma(final_mask_str.s, <<>>)) ELSE {}
    IN  IF ~has_mask THEN TRUE
        ELSE IF flags_set = {} THEN FALSE
        ELSE flags_set \subseteq final_mask_flags

_is_way_allowed_by_final_mask(cfg, flags_set) ==
    LET final_mask_str == cfg.final_mask
        has_mask == Truthy(final_mask_str)
        final_mask_flags ==
            IF has_mask THEN Range(SplitComma(final_mask_str.s, <<>>)) ELSE {}
    IN  IF ~has_mask THEN TRUE
        ELSE IF flags_set = {} THEN FALSE
        ELSE final_mask_flags \cap flags_set # {}

(***************************************************************************)
(* Raw edges.                                                              *)
(***************************************************************************)
\* The value of the geometry column.  "line" is a LineString with
\* coordinates, "empty" an empty LineString (falsy, no coordinates),
\* "broken" an object whose length and coordinates cannot be read (the case
\* the try/except around geometry.length is written for).
Geom(kind, length, coords) ==
    [t |-> "geom", kind |-> kind, length |-> length, coords |-> coords]

Line == Geom("line", 1500, <<<<10, 50>>, <<11, 50>>, <<12, 51>>>>)
EmptyLine == Geom("empty", 0, <<>>)
Broken == Geom("broken", 0, <<>>)

motorway == VStr(<<"motorway">>)
footway == VStr(<<"footway">>)
yes == VStr(<<"yes">>)
no == VStr(<<"no">>)

\* a nested tag dictionary with (or, with Absent, without) a highway key
Tags(h) == VDict([highway |-> h])

BaseEdge ==
    [highway |-> motorway, tags |-> Absent, osm_id |-> Absent, id |-> Absent,
     osmid |-> VInt(7), length |-> VInt(2000), geometry |-> Line,
     oneway |-> yes, name |-> VStr(<<"Main">>), ref |-> Absent]

HighwayVals ==
    { motorway, VStr(<<"residential">>), VStr(<<"path">>), VStr(<<"ferry">>),
      VStr(<<"proposed">>), VStr(<<"track">>), VStr(<<"service">>), footway,
      VStr(<<>>), None, NaN, Absent, VList(<<>>),
      VList(<<motorway, footway>>), VList(<<footway, motorway>>) }

TagsVals == { Absent, None, Tags(Absent), Tags(motorway), Tags(footway) }

OnewayVals ==
    { Absent, None, NaN, yes, no, VStr(<<"Yes">>), VStr(<<"YES">>),
      VStr(<<"true">>), VStr(<<"True">>), VStr(<<"1">>), VStr(<<"-1">>),
      VStr(<<"false">>), VStr(<<" ", "yes">>), VStr(<<"reversible">>),
      VBool(TRUE), VBool(FALSE), VInt(1), VInt(-1), VInt(0),
      VList(<<>>), VList(<<yes, no>>), VList(<<no, yes>>),
      VList(<<VStr(<<"-1">>)>>), VList(<<VBool(TRUE)>>) }

LengthVals ==
    { Absent, None, NaN, VInt(0), VInt(500), VInt(2000), VStr(<<"abc">>) }

GeometryVals == { Line, EmptyLine, Broken, None }

NameVals ==
    { Absent, None, NaN, VStr(<<>>), VStr(<<" ">>), VStr(<<"Main">>),
      VStr(<<" ", "Main", " ">>), VStr(<<"O", "'", "Brien">>),
      VStr(<<"'">>), VStr(<<"'", "'">>), VList(<<>>),
      VList(<<VStr(<<"It", "'", "s">>), VStr(<<"Main">>)>>),
      VList(<<None, VStr(<<"Main">>)>>) }

RefVals ==
    { Absent, None, VStr(<<>>), VStr(<<" ">>), VStr(<<"A", "'", "1">>),
      VList(<<>>), VList(<<VStr(<<"B2">>), VStr(<<"B3">>)>>) }

OsmidVals ==
    { Absent, None, NaN, VInt(7), VList(<<VInt(7), VInt(8)>>), VList(<<>>) }

\* single edges: the base edge varied a few columns at a time
EdgePool ==
    { [BaseEdge EXCEPT !.highway = h, !.tags = tg] :
          h \in HighwayVals, tg \in TagsVals }
    \cup { [BaseEdge EXCEPT !.oneway = ow, !.highway = h] :
          ow \in OnewayVals, h \in {motorway, VStr(<<"path">>)} }
    \cup { [BaseEdge EXCEPT !.length = ln, !.geometry = g, !.highway = h] :
          ln \in LengthVals, g \in GeometryVals,
          h \in {motorway, VStr(<<"path">>), VStr(<<"service">>)} }
    \cup { [BaseEdge EXCEPT !.name = nm, !.ref = rf] :
          nm \in NameVals, rf \in RefVals }
    \cup { [BaseEdge EXCEPT !.osmid = oi, !.osm_id = w, !.id = d] :
          oi \in OsmidVals, w \in {Absent, VInt(900)}, d \in {Absent, VInt(5)} }

\* edges of a frame of several edges (all with the same columns)
SmallPool ==
    { BaseEdge,
      [BaseEdge EXCEPT !.highway = VStr(<<"path">>), !.oneway = no,
                       !.name = None, !.length = VInt(500)],
      [BaseEdge EXCEPT !.highway = footway],
      [BaseEdge EXCEPT !.highway = VStr(<<"ferry">>),
                       !.oneway = VStr(<<"-1">>),
                       !.name = VStr(<<"O", "'", "Brien">>)],
      [BaseEdge EXCEPT !.geometry = None, !.length = VInt(0)],
      [BaseEdge EXCEPT !.osmid = VList(<<>>)] }

EdgeFrames ==
    { <<>> } \cup { <<e>> : e \in EdgePool }
    \cup UNION { [1..n -> SmallPool] : n \in 2..MaxEdges }

(***************************************************************************)
(* _process_and_write_edges, first loop: one raw edge.                     *)
(***************************************************************************)
\* the tag bag handed to the resolver
edge_tags(row) ==
    LET highway_val == FirstOr(PyGet(row, "highway", None), None)
        rtags == PyGet(row, "tags", Absent)
    IN  [highway |-> IF rtags.t = "dict" /\ rtags.d.highway # Absent
                     THEN rtags.d.highway ELSE highway_val]

\* way_id = row.get("osm_id", row.get("id", idx))
edge_way_id(row, idx) == PyGet(row, "osm_id", PyGet(row, "id", VInt(idx)))

\* processed_edge['osm_id'] (osm_id_val[0] of an empty list raises)
osmid_raises(row) ==
    LET osm_id_val == PyGet(row, "osmid", None)
    IN  osm_id_val.t = "list" /\ osm_id_val.xs = <<>>

edge_osm_id(row, idx) ==
    LET osm_id_val == PyGet(row, "osmid", None)
    IN  IF osm_id_val.t = "list" THEN osm_id_val.xs[1]
        ELSE IF osm_id_val = None THEN edge_way_id(row, idx)
        ELSE osm_id_val

\* length_m: the supplied length, or the geometry's when that == 0
edge_length_m(row) ==
    LET length_m == PyGet(row, "length", VInt(0))
        geometry == PyGet(row, "geometry", None)
    IN  IF length_m.t = "int" /\ length_m.n = 0 /\ Truthy(geometry)
        THEN (IF geometry.kind = "line" THEN VInt(geometry.length) ELSE VInt(0))
        ELSE length_m

\* length_m / 1000.0 raises TypeError unless length_m is a number
km_raises(row) == edge_length_m(row).t \notin {"int", "nan"}

edge_km(row) ==
    LET length_m == edge_length_m(row)
    IN  IF length_m.t = "nan" THEN FloatNaN
        ELSE FloatDivInt(Num(length_m.n, 1), 1000)

\* maxspeed > 0 raises TypeError for a null speed
cost_raises(maxspeed) == maxspeed.t # "int"

\* a variant with a penalty factor of 100
edge_cost_penalty100(km, maxspeed) ==
    IF maxspeed.n > 0 THEN FloatDivInt(km, maxspeed.n) ELSE FloatMulInt(km, 100)

edge_cost(km, maxspeed) ==
    IF maxspeed.n > 0 THEN FloatDivInt(km, maxspeed.n) ELSE FloatMulInt(km, 10)

edge_oneway_val(row) == FirstOr(PyGet(row, "oneway", no), no)

\* a variant that compares the indicator case-sensitively
is_oneway_exact(row) ==
    PyStr(edge_oneway_val(row)) \in { <<"yes">>, <<"true">>, <<"1">>, <<"-1">> }

is_oneway(row) ==
    Lower(PyStr(edge_oneway_val(row)))
        \in { <<"yes">>, <<"true">>, <<"1">>, <<"-1">> }

edge_reverse_cost(row, cost) ==
    IF is_oneway(row)
    THEN (IF PyStr(edge_oneway_val(row)) = <<"-1">> THEN cost
          ELSE Num(100000, 1))
    ELSE cost

\* the exception the loop body raises for a row that passed both filters
row_exception(cfg, row) ==
    IF osmid_raises(row) THEN "IndexError"
    ELSE IF km_raises(row) THEN "TypeError"
    ELSE IF cost_raises(_resolve_way_tags(cfg, edge_tags(row)).maxspeed)
         THEN "TypeError"
    ELSE "none"

\* the dictionary appended to processed_edges_list; raw holds the row's own
\* columns (row.to_dict()), src_idx records the row's position in edges_gdf
processed_edge(cfg, row, idx) ==
    LET r == _resolve_way_tags(cfg, edge_tags(row))
        km == edge_km(row)
        cost == edge_cost(km, r.maxspeed)
    IN  [raw |-> row, src_idx |-> idx,
         osm_id |-> edge_osm_id(row, idx),
         clazz |-> r.clazz.n, kmh |-> r.maxspeed.n, flags_set |-> r.flags,
         km |-> km, cost |-> cost,
         reverse_cost |-> edge_reverse_cost(row, cost)]

(***************************************************************************)
(* _process_and_write_edges, second loop: one processed edge.              *)
(***************************************************************************)
\* pd.notna(x)
NotNa(x) == x.t \notin {"none", "nan", "absent"}

\* final_name_for_sql
sql_name(raw) ==
    LET osm_name_val == FirstOr(PyGet(raw, "name", None), None)
        ref_val == FirstOr(PyGet(raw, "ref", None), None)
    IN  IF NotNa(osm_name_val) /\ Strip(PyStr(osm_name_val)) # <<>>
        THEN Quote(EscapeQuotes(PyStr(osm_name_val)))
        ELSE IF NotNa(ref_val) /\ Strip(PyStr(ref_val)) # <<>>
        THEN Quote(EscapeQuotes(PyStr(ref_val)))
        ELSE <<"NULL">>

\* list(row.geometry.coords), coords[0], coords[-1] and wkb_dumps raise
geometry_raises(geometry) == geometry.t # "geom" \/ geometry.kind # "line"

\* a variant that numbers a row by its edge's position in the raw input
insert_tuple_rawidx(cfg, edge, idx, order) ==
    LET coords == edge.raw.geometry.coords
    IN  [id |-> edge.src_idx, osm_id |-> edge.osm_id,
         osm_name |-> sql_name(edge.raw),
         osm_meta |-> <<"NULL">>, clazz |-> edge.clazz,
         flags |-> _flags_to_int(cfg, order),
         km |-> edge.km, kmh |-> edge.kmh, cost |-> edge.cost,
         reverse_cost |-> edge.reverse_cost,
         x1 |-> coords[1][1], y1 |-> coords[1][2],
         x2 |-> coords[Len(coords)][1], y2 |-> coords[Len(coords)][2],
         geom_way |-> edge.raw.geometry, src_idx |-> edge.src_idx]

\* the value tuple of one processed edge, its flags iterated in `order`
insert_tuple(cfg, edge, idx, order) ==
    LET coords == edge.raw.geometry.coords
    IN  [id |-> idx, osm_id |-> edge.osm_id, osm_name |-> sql_name(edge.raw),
         osm_meta |-> <<"NULL">>, clazz |-> edge.clazz,
         flags |-> _flags_to_int(cfg, order),
         km |-> edge.km, kmh |-> edge.kmh, cost |-> edge.cost,
         reverse_cost |-> edge.reverse_cost,
         x1 |-> coords[1][1], y1 |-> coords[1][2],
         x2 |-> coords[Len(coords)][1], y2 |-> coords[Len(coords)][2],
         geom_way |-> edge.raw.geometry, src_idx |-> edge.src_idx]

(***************************************************************************)
(* build_network: the INSERT blocks.                                       *)
(***************************************************************************)
chunk_size == 1000

Block(kind, rows) == [kind |-> kind, rows |-> rows]

Min(a, b) == IF a < b THEN a ELSE b

\* a variant whose slice ends one row early
chunk_at_short(tuples, k) ==
    SubSeq(tuples, k + 1, Min(k + chunk_size - 1, Len(tuples)))

\* insert_value_tuples[i:i + chunk_size], i counted from 0
chunk_at(tuples, k) == SubSeq(tuples, k + 1, Min(k + chunk_size, Len(tuples)))

(***************************************************************************)
(* The state machine.                                                      *)
(***************************************************************************)
Init ==
    /\ config \in Configs
    /\ edges_gdf \in EdgeFrames
    /\ pc = "loop1"
    /\ i = 1
    /\ processed_edges_list = <<>>
    /\ insert_value_tuples = <<>>
    /\ full_sql_content = <<>>
    /\ exc = "none"

\* if edges_gdf.empty: return []
NoEdges ==
    /\ pc = "loop1"
    /\ edges_gdf = <<>>
    /\ pc' = "sql"
    /\ insert_value_tuples' = <<>>
    /\ UNCHANGED <<config, edges_gdf, i, processed_edges_list,
                   full_sql_content, exc>>

\* one iteration of "for idx, row in edges_gdf.iterrows()".  An exception
\* leaves _process_and_write_edges and is caught by build_network, which
\* logs it and returns without SQL.
ProcessEdge ==
    /\ pc = "loop1"
    /\ i <= Len(edges_gdf)
    /\ LET row == edges_gdf[i]
           idx == i - 1
           r == _resolve_way_tags(config, edge_tags(row))
       IN  IF ~_is_way_allowed_by_final_mask(config, r.flags)
           THEN /\ i' = i + 1
                /\ UNCHANGED <<pc, processed_edges_list, exc>>
           ELSE IF r.clazz.n = 0
           THEN /\ i' = i + 1
                /\ UNCHANGED <<pc, processed_edges_list, exc>>
           ELSE IF row_exception(config, row) # "none"
           THEN /\ exc' = row_exception(config, row)
                /\ pc' = "done"
                /\ UNCHANGED <<i, processed_edges_list>>
           ELSE /\ processed_edges_list' =
                       Append(processed_edges_list,
                              processed_edge(config, row, idx))
                /\ i' = i + 1
                /\ UNCHANGED <<pc, exc>>
    /\ UNCHANGED <<config, edges_gdf, insert_value_tuples, full_sql_content>>

\* if not processed_edges_list: return []
NoneRemained ==
    /\ pc = "loop1"
    /\ edges_gdf # <<>>
    /\ i > Len(edges_gdf)
    /\ processed_edges_list = <<>>
    /\ pc' = "sql"
    /\ insert_value_tuples' = <<>>
    /\ UNCHANGED <<config, edges_gdf, i, processed_edges_list,
                   full_sql_content, exc>>

\* edges = gpd.GeoDataFrame(processed_edges_list, ...): a fresh 0.. index
BeginFormat ==
    /\ pc = "loop1"
    /\ i > Len(edges_gdf)
    /\ processed_edges_list # <<>>
    /\ pc' = "loop2"
    /\ i' = 1
    /\ UNCHANGED <<config, edges_gdf, processed_edges_list,
                   insert_value_tuples, full_sql_content, exc>>

\* one iteration of "for idx, row in edges.iterrows()"
FormatRow ==
    /\ pc = "loop2"
    /\ i <= Len(processed_edges_list)
    /\ LET edge == processed_edges_list[i]
           idx == i - 1
       IN  IF geometry_raises(edge.raw.geometry)
           THEN UNCHANGED insert_value_tuples
           ELSE \E order \in Orders(edge.flags_set) :
                   insert_value_tuples' =
                       Append(insert_value_tuples,
                              insert_tuple(config, edge, idx, order))
    /\ i' = i + 1
    /\ UNCHANGED <<config, edges_gdf, pc, processed_edges_list,
                   full_sql_content, exc>>

\* return insert_value_tuples
ReturnTuples ==
    /\ pc = "loop2"
    /\ i > Len(processed_edges_list)
    /\ pc' = "sql"
    /\ UNCHANGED <<config, edges_gdf, i, processed_edges_list,
                   insert_value_tuples, full_sql_content, exc>>

\* full_sql_content.append(HEADER_SQL); the chunk loop starts at 0 (it has
\* no iteration when insert_value_tuples is empty)
AppendHeader ==
    /\ pc = "sql"
    /\ full_sql_content' = <<Block("HEADER_SQL", <<>>)>>
    /\ pc' = "chunk"
    /\ i' = 0
    /\ UNCHANGED <<config, edges_gdf, processed_edges_list,
                   insert_value_tuples, exc>>

\* one iteration of "for i in range(0, len(insert_value_tuples), chunk_size)"
AppendChunk ==
    /\ pc = "chunk"
    /\ i < Len(insert_value_tuples)
    /\ full_sql_content' =
           Append(full_sql_content,
                  Block("INSERT", chunk_at(insert_value_tuples, i)))
    /\ i' = i + chunk_size
    /\ UNCHANGED <<config, edges_gdf, pc, processed_edges_list,
                   insert_value_tuples, exc>>

\* full_sql_content.append(INDEX_SQL)
AppendIndex ==
    /\ pc = "chunk"
    /\ i >= Len(insert_value_tuples)
    /\ full_sql_content' = Append(full_sql_content, Block("INDEX_SQL", <<>>))
    /\ pc' = "done"
    /\ UNCHANGED <<config, edges_gdf, i, processed_edges_list,
                   insert_value_tuples, exc>>

Next ==
    \/ NoEdges
    \/ ProcessEdge
    \/ NoneRemained
    \/ BeginFormat
    \/ FormatRow
    \/ ReturnTuples
    \/ AppendHeader
    \/ AppendChunk
    \/ AppendIndex

Spec == Init /\ [][Next]_vars

(***************************************************************************)
(* build_network on its own, handed any number of value tuples.            *)
(***************************************************************************)
InitBuild ==
    /\ config = default_config
    /\ edges_gdf = <<>>
    /\ pc = "sql"
    /\ i = 1
    /\ processed_edges_list = <<>>
    /\ insert_value_tuples \in { [k \in 1..n |-> k] : n \in 0..MaxRows }
    /\ full_sql_content = <<>>
    /\ exc = "none"

NextBuild ==
    \/ AppendHeader
    \/ AppendChunk
    \/ AppendIndex

SpecBuild == InitBuild /\ [][NextBuild]_vars

(***************************************************************************)
(* Vocabulary of the properties.                                           *)
(***************************************************************************)
\* the value of a column of a raw row, a list replaced by its first element
\* (by dflt when it is empty or the column is missing)
Normalized(row, col, dflt) ==
    LET x == IF col \in DOMAIN row THEN row[col] ELSE Absent
    IN  IF x = Absent THEN dflt
        ELSE IF x.t = "list" THEN (IF Len(x.xs) = 0 THEN dflt ELSE x.xs[1])
        ELSE x

\* the highway tag the resolver is asked about: the nested tag dictionary's
\* highway entry when the row carries one, else the row's highway value
EffectiveHighway(row) ==
    IF row.tags.t = "dict" /\ row.tags.d.highway # Absent
    THEN row.tags.d.highway
    ELSE Normalized(row, "highway", None)

IsRuleKey(cfg, h) == h.t = "str" /\ h.s \in DOMAIN cfg.tags

Unclassified == [clazz |-> VInt(0), maxspeed |-> VInt(0), flags |-> {}]

\* the first loop is past the k-th raw edge
Visited(k) == pc # "loop1" \/ k < i

\* the raw edge at position k has a processed record / an emitted row
KeptFrom(k) ==
    \E e \in 1..Len(processed_edges_list) :
        processed_edges_list[e].src_idx = k - 1

RowFrom(k) ==
    \E r \in 1..Len(insert_value_tuples) :
        insert_value_tuples[r].src_idx = k - 1

Resolved(k) == _resolve_way_tags(config, edge_tags(edges_gdf[k]))

SuppliedMeters(raw) ==
    LET ln == IF raw.length = Absent THEN VInt(0) ELSE raw.length
    IN  IF ln.t = "int" /\ ln.n # 0 THEN ln.n
        ELSE IF raw.geometry.t = "geom" /\ raw.geometry.kind = "line"
        THEN raw.geometry.length
        ELSE 0

C2_ForwardCost ==
    \A e \in 1..Len(processed_edges_list) :
        LET pe == processed_edges_list[e]
        IN  IF pe.km.nan THEN pe.cost.nan
            ELSE /\ ~pe.cost.nan
                 /\ pe.km.n * 1000 = SuppliedMeters(pe.raw) * pe.km.d
                 /\ pe.kmh > 0 =>
                      pe.cost.n * (pe.km.d * pe.kmh) = pe.km.n * pe.cost.d
                 /\ pe.kmh = 0 =>
                      pe.cost.n * pe.km.d = (10 * pe.km.n) * pe.cost.d

\* C2 witness: kept edges of non-zero length, one with a speed, one without,
\* one of them one-way and one not
C2_Witness ==
    \E a, b \in 1..Len(processed_edges_list) :
        /\ processed_edges_list[a].kmh > 0
        /\ processed_edges_list[b].kmh = 0
        /\ processed_edges_list[a].km.n > 0
        /\ processed_edges_list[b].km.n > 0
        /\ processed_edges_list[a].raw.oneway = yes
        /\ processed_edges_list[b].raw.oneway = no

(***************************************************************************)
(* C3.  For every kept edge whose one-way indicator (after list            *)
(* normalization, compared case-insensitively) is "yes", "true" or "1",    *)
(* reverse_cost is 100000; for an indicator that is "no", absent, an empty *)
(* list or anything else outside {"yes","true","1","-1"}, reverse_cost is  *)
(* the forward cost.                                                       *)
(***************************************************************************)
\* the indicator as text
OnewayText(raw) == PyStr(Normalized(raw, "oneway", no))

YesLike ==
    { <<"yes">>, <<"Yes">>, <<"YES">>, <<"true">>, <<"True">>, <<"TRUE">>,
      <<"1">> }

C3_ReverseCost ==
    \A e \in 1..Len(processed_edges_list) :
        LET pe == processed_edges_list[e]
            text == OnewayText(pe.raw)
        IN  /\ text \in YesLike => IsWhole(pe.reverse_cost, 100000)
            /\ text \notin YesLike \cup {<<"-1">>} =>
                  SameFloat(pe.reverse_cost, pe.cost)

\* C3 witness: a kept one-way edge and a kept two-way edge whose reverse
\* cost is its own forward cost, not the blocking value
C3_Witness ==
    \E a, b \in 1..Len(processed_edges_list) :
        /\ OnewayText(processed_edges_list[a].raw) \in YesLike
        /\ processed_edges_list[a].reverse_cost = Num(100000, 1)
        /\ OnewayText(processed_edges_list[b].raw) = <<"no">>
        /\ ~IsWhole(processed_edges_list[b].reverse_cost, 100000)

(***************************************************************************)
(* C4.  For every kept edge whose one-way indicator is literally "-1", the *)
(* forward cost is the blocking penalty 100000 and reverse_cost is the     *)
(* true traversal cost (length_km / speed, or length_km * 10 at speed 0).  *)
(***************************************************************************)
C4_ReversedOneway ==
    \A e \in 1..Len(processed_edges_list) :
        LET pe == processed_edges_list[e]
        IN  (OnewayText(pe.raw) = <<"-1">> /\ ~pe.km.nan) =>
                /\ IsWhole(pe.cost, 100000)
                /\ pe.kmh > 0 =>
                     pe.reverse_cost.n * (pe.km.d * pe.kmh)
                         = pe.km.n * pe.reverse_cost.d
                /\ pe.kmh = 0 =>
                     pe.reverse_cost.n * pe.km.d
                         = (10 * pe.km.n) * pe.reverse_cost.d

(***************************************************************************)
(* C5.  A per-edge error (a null or non-numeric length or speed, an empty  *)
(* identifier list, a geometry without coordinates) skips that edge only:  *)
(* no exception leaves _process_and_write_edges, and the rows of all the   *)
(* other qualifying edges are returned in input order.                     *)
(***************************************************************************)
\* the raw edge at position k passes the mask and the class filter
Qualifies(k) ==
    /\ _is_way_allowed_by_final_mask(config, Resolved(k).flags)
    /\ Resolved(k).clazz.n # 0

\* the raw edge at position k has a per-edge error
Malformed(k) ==
    \/ row_exception(config, edges_gdf[k]) # "none"
    \/ geometry_raises(edges_gdf[k].geometry)

\* the positions (from 0) of the edges that must have a row, in input order
RECURSIVE ExpectedFrom(_)
ExpectedFrom(k) ==
    IF k > Len(edges_gdf) THEN <<>>
    ELSE (IF Qualifies(k) /\ ~Malformed(k) THEN <<k - 1>> ELSE <<>>)
         \o ExpectedFrom(k + 1)

Sources(tuples) == [r \in 1..Len(tuples) |-> tuples[r].src_idx]

C5_NoEdgeAborts ==
    /\ exc = "none"
    /\ pc \in {"sql", "chunk", "done"} =>
          Sources(insert_value_tuples) = ExpectedFrom(1)

(***************************************************************************)
(* C6.  For n value tuples build_network emits ceil(n / 1000) INSERT       *)
(* blocks, each of 1 to 1000 rows and all but the last of exactly 1000,    *)
(* whose rows concatenated in block order are the input sequence; n = 0    *)
(* gives no INSERT block between the header and the index trailer, and     *)
(* n = 2500 gives blocks of 1000, 1000 and 500 rows.                       *)
(***************************************************************************)
InsertBlocks == SelectSeq(full_sql_content, LAMBDA b : b.kind = "INSERT")

RECURSIVE ConcatRows(_)
ConcatRows(blocks) ==
    IF blocks = <<>> THEN <<>>
    ELSE Head(blocks).rows \o ConcatRows(Tail(blocks))

C6_InsertBlocks ==
    pc = "done" =>
        LET n == Len(insert_value_tuples)
            blocks == InsertBlocks
            m == Len(blocks)
        IN  /\ m * 1000 >= n
            /\ (m = 0 \/ (m - 1) * 1000 < n)
            /\ \A b \in 1..m :
                  /\ Len(blocks[b].rows) >= 1
                  /\ Len(blocks[b].rows) <= 1000
                  /\ b < m => Len(blocks[b].rows) = 1000
            /\ ConcatRows(blocks) = insert_value_tuples
            /\ Len(full_sql_content) = m + 2
            /\ full_sql_content[1].kind = "HEADER_SQL"
            /\ full_sql_content[m + 2].kind = "INDEX_SQL"
            /\ n = 0 => m = 0
            /\ n = 2500 =>
                  [b \in 1..m |-> Len(blocks[b].rows)] = <<1000, 1000, 500>>

\* C6 witness: the SQL of 2500 value tuples, in three INSERT blocks
C6_Witness ==
    /\ pc = "done"
    /\ Len(insert_value_tuples) = 2500
    /\ Len(InsertBlocks) = 3
    /\ Len(InsertBlocks[3].rows) = 500

(***************************************************************************)
(* C7.  _is_way_allowed_by_final_mask(flags) is true for every flag set    *)
(* when no allow-mask is configured (final_mask null or the empty string); *)
(* with a mask it is false for the empty flag set and otherwise true iff   *)
(* flags meets the mask's comma-separated names; an edge for which it is   *)
(* false has no row (a motorway edge with flags {car} under mask "bike"    *)
(* gives an empty result).                                                 *)
(***************************************************************************)
FlagNames == {car, bike, foot, boat}

\* the names a mask expression lists, piece by piece between its commas
MaskNames(mask) ==
    CASE mask = VStr(<<"bike">>) -> {bike}
      [] mask = VStr(<<"boat">>) -> {boat}
      [] mask = VStr(<<"car", ",", "foot">>) -> {car, foot}
      [] mask = VStr(<<"car", ",", " ", "bike">>) -> {car, <<" ", "bike">>}
      [] OTHER -> {}

NoMask(cfg) == cfg.final_mask = None \/ cfg.final_mask = VStr(<<>>)

C7_FinalMask ==
    /\ \A flags \in SUBSET FlagNames :
          _is_way_allowed_by_final_mask(config, flags)
              = IF NoMask(config) THEN TRUE
                ELSE IF flags = {} THEN FALSE
                ELSE \E f \in flags : f \in MaskNames(config.final_mask)
    /\ \A k \in 1..Len(edges_gdf) :
          (Visited(k)
             /\ ~_is_way_allowed_by_final_mask(config, Resolved(k).flags))
              => ~KeptFrom(k) /\ ~RowFrom(k)
    /\ (pc = "done" /\ edges_gdf = <<BaseEdge>>
          /\ config.final_mask = VStr(<<"bike">>))
              => insert_value_tuples = <<>> /\ InsertBlocks = <<>>

\* C7 witness: the motorway edge under mask "bike", finished with no row
C7_Witness ==
    /\ pc = "done"
    /\ edges_gdf = <<BaseEdge>>
    /\ config.final_mask = VStr(<<"bike">>)
    /\ Resolved(1).flags = {car}
    /\ ~_is_way_allowed_by_final_mask(config, Resolved(1).flags)
    /\ insert_value_tuples = <<>>

(***************************************************************************)
(* C8 (as amended).  For every flag set and every flag vocabulary,         *)
(* _flags_to_int(flags) is the bitwise OR of 1 << i over each flag of the  *)
(* set whose last occurrence in the vocabulary is at index i; flags not in *)
(* the vocabulary contribute nothing and never raise, the result does not  *)
(* depend on the iteration order of the set, and the empty set packs to 0. *)
(***************************************************************************)
\* the number whose set bits are the bits k - 1 for k in K (indices from 1)
RECURSIVE BitsOf(_)
BitsOf(K) ==
    IF K = {} THEN 0
    ELSE LET k == CHOOSE x \in K : TRUE
         IN  2 ^ (k - 1) + BitsOf(K \ {k})

\* the indices at which the vocabulary has a flag of the set
IndicesOf(flag_list, flags) ==
    { k \in 1..Len(flag_list) : flag_list[k] \in flags }

\* the same, a repeated name counted at its last index only
LastIndicesOf(flag_list, flags) ==
    { k \in IndicesOf(flag_list, flags) :
        \A j \in (k + 1)..Len(flag_list) : flag_list[j] # flag_list[k] }

\* the configuration is loaded and no edge is processed yet (the packing of
\* a flag set depends on the configuration alone)
Starting == pc = "loop1" /\ i = 1

\* the flag set of the processed edge a row was formatted from
RowFlagsSet(row) == processed_edges_list[row.id + 1].flags_set

C8_PackFlags ==
    /\ Starting =>
          /\ \A flags \in SUBSET FlagNames : \A order \in Orders(flags) :
                _flags_to_int(config, order)
                    = BitsOf(LastIndicesOf(config.flag_list, flags))
          /\ _flags_to_int(config, <<>>) = 0
    /\ \A r \in 1..Len(insert_value_tuples) :
          insert_value_tuples[r].flags
              = BitsOf(LastIndicesOf(config.flag_list,
                                     RowFlagsSet(insert_value_tuples[r])))

\* C8 witness: a row packed from {boat, car} under the default vocabulary,
\* where "boat" is no flag of the vocabulary
C8_Witness ==
    \E r \in 1..Len(insert_value_tuples) :
        /\ RowFlagsSet(insert_value_tuples[r]) = {boat, car}
        /\ config.flag_list = <<car, bike, foot>>
        /\ insert_value_tuples[r].flags = 1

\* C8 as stated: every index at which a flag of the set occurs contributes
C8_Original ==
    /\ Starting =>
          /\ \A flags \in SUBSET FlagNames : \A order \in Orders(flags) :
                _flags_to_int(config, order)
                    = BitsOf(IndicesOf(config.flag_list, flags))
          /\ _flags_to_int(config, <<>>) = 0
    /\ \A r \in 1..Len(insert_value_tuples) :
          insert_value_tuples[r].flags
              = BitsOf(IndicesOf(config.flag_list,
                                 RowFlagsSet(insert_value_tuples[r])))

(***************************************************************************)
(* C9 (as amended).  The display name of every emitted row is the          *)
(* list-normalized name when that is non-null and not blank (non-empty     *)
(* once surrounding whitespace is stripped), otherwise the list-normalized *)
(* ref when that is non-null and not blank, otherwise the unquoted literal *)
(* NULL; a chosen text is emitted between single quotes with every single  *)
(* quote inside it doubled, so that un-doubling the quotes between the     *)
(* delimiters gives back the original string.                              *)
(***************************************************************************)
Blank(s) == \A k \in 1..Len(s) : s[k] = " "

NonNull(v) == v.t # "none" /\ v.t # "nan"

Inner(q) == SubSeq(q, 2, Len(q) - 1)

\* every single quote of s is one of a pair
RECURSIVE QuotesPaired(_)
QuotesPaired(s) ==
    IF s = <<>> THEN TRUE
    ELSE IF s[1] = "'"
    THEN Len(s) >= 2 /\ s[2] = "'" /\ QuotesPaired(SubSeq(s, 3, Len(s)))
    ELSE QuotesPaired(Tail(s))

\* s with each pair of single quotes replaced by one
RECURSIVE Undouble(_)
Undouble(s) ==
    IF s = <<>> THEN <<>>
    ELSE IF Len(s) >= 2 /\ s[1] = "'" /\ s[2] = "'"
    THEN <<"'">> \o Undouble(SubSeq(s, 3, Len(s)))
    ELSE <<s[1]>> \o Undouble(Tail(s))

IsQuoted(q, text) ==
    /\ Len(q) >= 2
    /\ q[1] = "'"
    /\ q[Len(q)] = "'"
    /\ QuotesPaired(Inner(q))
    /\ Undouble(Inner(q)) = text

\* q is the display name of raw, under a reading of "has a usable text"
DisplayName(raw, q, Usable(_)) ==
    LET nm == Normalized(raw, "name", None)
        rf == Normalized(raw, "ref", None)
    IN  IF Usable(nm) THEN IsQuoted(q, PyStr(nm))
        ELSE IF Usable(rf) THEN IsQuoted(q, PyStr(rf))
        ELSE q = <<"NULL">>

NotBlank(v) == NonNull(v) /\ ~Blank(PyStr(v))

NotEmpty(v) == NonNull(v) /\ PyStr(v) # <<>>

ClaimMeters(raw) ==
    IF raw.length.t = "int" /\ raw.length.n # 0 THEN raw.length.n
    ELSE IF raw.geometry.t = "geom" /\ raw.geometry.kind = "line"
    THEN raw.geometry.length
    ELSE 0

\* the supplied length is a number, null or missing
LengthInScope(raw) == raw.length.t \in {"int", "nan", "none", "absent"}

C10_LengthKm ==
    /\ \A e \in 1..Len(processed_edges_list) :
          LET pe == processed_edges_list[e]
          IN  LengthInScope(pe.raw) =>
                 /\ ~pe.km.nan
                 /\ pe.km.n * 1000 = ClaimMeters(pe.raw) * pe.km.d
    /\ \A k \in 1..Len(edges_gdf) :
          (/\ Visited(k)
           /\ Qualifies(k)
           /\ LengthInScope(edges_gdf[k])
           /\ ~osmid_raises(edges_gdf[k])
           /\ ~cost_raises(Resolved(k).maxspeed)
           /\ \A j \in 1..(k - 1) : Qualifies(j) => KeptFrom(j))
              => KeptFrom(k)

(***************************************************************************)
(* C11.  For each of highway, oneway, name, ref and osmid a list value     *)
(* counts as its first element when it is non-empty and as an absence      *)
(* value when it is empty (highway, name, ref: null; oneway: "no"; osmid:  *)
(* the fallback way id), and no list raises: an edge carrying lists is     *)
(* processed exactly as the same edge with each list replaced that way, so *)
(* it has a processed record whenever that edge has one, with the same     *)
(* identifier, class, speed, flags, length and costs, and a row with the   *)
(* same name.                                                              *)
(***************************************************************************)
FirstElement(x, absence) ==
    IF x.t # "list" THEN x
    ELSE IF Len(x.xs) >= 1 THEN x.xs[1] ELSE absence

\* the raw edge with every list of the five columns replaced
Unlisted(row, idx) ==
    [row EXCEPT !.highway = FirstElement(@, None),
                !.oneway = FirstElement(@, no),
                !.name = FirstElement(@, None),
                !.ref = FirstElement(@, None),
                !.osmid = FirstElement(@, edge_way_id(row, idx))]

HasList(row) ==
    \E col \in {"highway", "oneway", "name", "ref", "osmid"} :
        row[col].t = "list"

\* the fields of a processed record that the first loop computes
SameRecord(pe, qe) ==
    /\ pe.src_idx = qe.src_idx
    /\ pe.osm_id = qe.osm_id
    /\ pe.clazz = qe.clazz
    /\ pe.kmh = qe.kmh
    /\ pe.flags_set = qe.flags_set
    /\ pe.km = qe.km
    /\ pe.cost = qe.cost
    /\ pe.reverse_cost = qe.reverse_cost

C11_ListNormalization ==
    /\ \A e \in 1..Len(processed_edges_list) :
          LET pe == processed_edges_list[e]
              plain == Unlisted(pe.raw, pe.src_idx)
          IN  HasList(pe.raw) =>
                 SameRecord(pe, processed_edge(config, plain, pe.src_idx))
    /\ \A r \in 1..Len(insert_value_tuples) :
          LET raw == edges_gdf[insert_value_tuples[r].src_idx + 1]
          IN  HasList(raw) =>
                 insert_value_tuples[r].osm_name
                     = sql_name(Unlisted(raw, insert_value_tuples[r].src_idx))
    /\ \A k \in 1..Len(edges_gdf) :
          LET plain == Unlisted(edges_gdf[k], k - 1)
          IN  (/\ Visited(k)
               /\ HasList(edges_gdf[k])
               /\ _is_way_allowed_by_final_mask(config,
                      _resolve_way_tags(config, edge_tags(plain)).flags)
               /\ _resolve_way_tags(config, edge_tags(plain)).clazz.n # 0
               /\ row_exception(config, plain) = "none"
               /\ \A j \in 1..(k - 1) : Qualifies(j) => KeptFrom(j))
                  => KeptFrom(k)

\* the four columns whose empty list is guarded, taken alone
C11_GuardedColumns ==
    /\ \A e \in 1..Len(processed_edges_list) :
          LET pe == processed_edges_list[e]
              plain == Unlisted(pe.raw, pe.src_idx)
          IN  HasList(pe.raw) =>
                 SameRecord(pe, processed_edge(config, plain, pe.src_idx))
    /\ \A r \in 1..Len(insert_value_tuples) :
          LET raw == edges_gdf[insert_value_tuples[r].src_idx + 1]
          IN  HasList(raw) =>
                 insert_value_tuples[r].osm_name
                     = sql_name(Unlisted(raw, insert_value_tuples[r].src_idx))
    /\ \A k \in 1..Len(edges_gdf) :
          LET plain == Unlisted(edges_gdf[k], k - 1)
          IN  (/\ Visited(k)
               /\ HasList(edges_gdf[k])
               /\ edges_gdf[k].osmid # VList(<<>>)
               /\ _is_way_allowed_by_final_mask(config,
                      _resolve_way_tags(config, edge_tags(plain)).flags)
               /\ _resolve_way_tags(config, edge_tags(plain)).clazz.n # 0
               /\ row_exception(config, plain) = "none"
               /\ \A j \in 1..(k - 1) : Qualifies(j) => KeptFrom(j))
                  => KeptFrom(k)

(***************************************************************************)
(* C12 (as amended).  The id of every emitted row is the 0-based position  *)
(* of its edge among the edges that survived the mask and class filters    *)
(* (the number of surviving edges before it in the raw input), not its     *)
(* position in the raw input; the ids increase strictly in output order;   *)
(* and the ids of the returned rows are exactly 0 .. n-1, for n the number *)
(* of surviving edges, iff no surviving edge was skipped for a geometry    *)
(* error.                                                                  *)
(***************************************************************************)
\* _process_and_write_edges has returned its rows
Returned == pc \in {"sql", "chunk", "done"} /\ exc = "none"

Survivors == { k \in 1..Len(edges_gdf) : Qualifies(k) }

SurvivorsBefore(k) == Cardinality({ j \in Survivors : j < k })

GeometrySkipped ==
    \E k \in Survivors : geometry_raises(edges_gdf[k].geometry)

RowIds == { insert_value_tuples[r].id : r \in 1..Len(insert_value_tuples) }

RowIdsPositional ==
    /\ \A r \in 1..Len(insert_value_tuples) :
          insert_value_tuples[r].id
              = SurvivorsBefore(insert_value_tuples[r].src_idx + 1)
    /\ \A r \in 1..(Len(insert_value_tuples) - 1) :
          insert_value_tuples[r].id < insert_value_tuples[r + 1].id

C12_RowIds ==
    /\ exc = "none" => RowIdsPositional
    /\ Returned =>
          (RowIds = 0..(Cardinality(Survivors) - 1) <=> ~GeometrySkipped)

\* a filtered edge precedes a returned row, a surviving edge was skipped and
\* the returned ids show the gap
C12_Witness ==
    /\ Returned
    /\ \E r \in 1..Len(insert_value_tuples) :
          insert_value_tuples[r].id # insert_value_tuples[r].src_idx
    /\ GeometrySkipped
    /\ RowIds # 0..(Len(insert_value_tuples) - 1)

\* C12 as stated, n read as the number of returned rows: the ids of the
\* returned rows are exactly 0 .. n-1 iff no surviving edge was skipped
C12_Original ==
    /\ exc = "none" => RowIdsPositional
    /\ Returned =>
          (RowIds = 0..(Len(insert_value_tuples) - 1) <=> ~GeometrySkipped)

====
